---- MODULE Spec2Model ----
(***************************************************************************)
(* The Teams presence session of utils/teams.py as a state machine.        *)
(*                                                                         *)
(* The fields of a Teams object are the variables.  Every method and       *)
(* property of the class is an operator that takes the session as a record *)
(* c and yields the LIST of outcomes [c |-> session after, v |-> value     *)
(* returned]: one outcome for each answer the remote side can give to the  *)
(* requests made on the way.  A raised exception is the field c.exc; the   *)
(* callers pass it on without running the rest of their body, while the    *)
(* assignments made before the raise stay.  c.net is the list of remote    *)
(* calls of the running operation, in the order they are made.             *)
(***************************************************************************)
EXTENDS Integers, Sequences, FiniteSets, TLC

VARIABLES
    email,                \* self.email, split at "@"
    account_type_cache,   \* self.account_type_cache
    client_cache,         \* self.client_cache
    silent_token_cache,   \* self.silent_token_cache
    need_login,           \* self.need_login
    access_token,         \* self.access_token
    refresh_token,        \* self.refresh_token
    access_token_expiry,  \* self.access_token_expiry
    stored,               \* history: the dict set_account_data was last called with
    now,                  \* int(time.time())
    op,                   \* the operation that has just ended; Idle between two calls
    net,                  \* the remote calls it made, in order
    exc,                  \* the exception it raised, NoExc if it returned
    ret                   \* the value it returned, as repr() prints it

vars == <<email, account_type_cache, client_cache, silent_token_cache,
          need_login, access_token, refresh_token, access_token_expiry, stored,
          now, op, net, exc, ret>>

---------------------------------------------------------------------------
(* Bounds *)

\* the clock stops after MaxTime seconds
MaxTime == 3
\* the longest token lifetime the token endpoint grants
MaxExpiresIn == 2

---------------------------------------------------------------------------
(* Python values *)

\* None and False where the slot otherwise holds a string (a token)
PyNone == "None"
PyFalse == "False"
\* a key that a dict does not have
Absent == "<absent>"
\* None and False where the slot otherwise holds an int
IntNone == -1
IntFalse == 0

NoExc == ""

\* bool(v) for a token slot
Truthy(v) == v \notin {PyNone, PyFalse, Absent}

\* dict.get(key, False)
GetOrFalse(v) == IF v = Absent THEN PyFalse ELSE v

\* needle in haystack, for a string kept as the sequence of its parts
Contains(haystack, needle) == \E i \in 1..Len(haystack) : haystack[i] = needle

---------------------------------------------------------------------------
(* What the remote side answers *)

\* A JSON body, reduced to the keys the code reads.  valid: the body parses;
\* empty: it parses to {}.
NoBody == [valid |-> TRUE, empty |-> TRUE, account |-> <<>>, tenantId |-> Absent,
           skypetoken |-> Absent, tokens_skypeToken |-> Absent]
Malformed == [NoBody EXCEPT !.valid = FALSE]
OtherKeys == [NoBody EXCEPT !.empty = FALSE]

\* status 0: the transport failed and no response came back
NoStatus == 0
Response(status, body) == [status |-> status, body |-> body]
NoResponse == Response(NoStatus, NoBody)

\* ok, were it true of the 2xx statuses only
ok_2xx(response) == response.status \in 200..299

\* requests.Response.ok: raise_for_status() raises for 400..599 only
ok(response) == response.status < 400

\* the account field of the discovery answer
MSAccount == <<"MSAccount">>
AccountBody(account) == [OtherKeys EXCEPT !.account = account]

IdpResponses ==
    <<NoResponse, Response(404, NoBody), Response(200, Malformed), Response(200, NoBody),
      Response(200, OtherKeys), Response(200, AccountBody(MSAccount)),
      Response(200, AccountBody(<<"OrgId">>)),
      Response(200, AccountBody(<<"MSAccount", ", ", "OrgId">>)),
      Response(200, AccountBody(<<"Placeholder">>))>>

FederationResponses ==
    <<NoResponse, Response(404, NoBody), Response(200, Malformed), Response(200, NoBody),
      Response(200, [OtherKeys EXCEPT !.tenantId = "abc-123"])>>

\* What an msal token call returns: nothing (None or {}), or a dict: an error
\* without tokens, or the tokens granted; raises: the transport failed instead.
NoAccount == [raises |-> FALSE, truthy |-> FALSE, access_token |-> Absent,
              refresh_token |-> Absent, expires_in |-> IntNone]
ErrorAccount == [NoAccount EXCEPT !.truthy = TRUE]
RaisedAccount == [NoAccount EXCEPT !.raises = TRUE]
TokenAccount(at, rt, e) ==
    [ErrorAccount EXCEPT !.access_token = at, !.refresh_token = rt, !.expires_in = e]
TokenAccounts(at, rt) ==
    <<TokenAccount(at, rt, MaxExpiresIn), TokenAccount(at, rt, IntNone),
      TokenAccount(at, Absent, MaxExpiresIn), TokenAccount(at, Absent, IntNone)>>

LoginAccounts == <<NoAccount, ErrorAccount, RaisedAccount>> \o TokenAccounts("at1", "rt1")
RefreshAccounts == <<NoAccount, ErrorAccount, RaisedAccount>> \o TokenAccounts("at2", "rt2")

---------------------------------------------------------------------------
(* Outcomes *)

\* one remote call of the log: what was called, with which host and headers
\* (where the code chooses them), and what came back
\* f"Bearer {token}"
Bearer(token) == [scheme |-> "Bearer", token |-> token]
NoHeaders == [authorization |-> [scheme |-> "", token |-> Absent], consumer_type |-> Absent,
              x_skypetoken |-> Absent, tenantid |-> Absent]
Call(name) == [call |-> name, host |-> "", headers |-> NoHeaders,
               response |-> NoResponse, account |-> NoAccount]
Http(name, response) == [Call(name) EXCEPT !.response = response]
Msal(name, account) == [Call(name) EXCEPT !.account = account]

Request(c, entry) == [c EXCEPT !.net = Append(@, entry)]

Out(c, v) == [c |-> c, v |-> v]
\* raise e: the outcome has no value
Throw(c, e) == [c |-> [c EXCEPT !.exc = e]]
Raised(o) == o.c.exc # NoExc

\* the lists ss[lo], ..., ss[hi] joined
RECURSIVE Join(_, _, _)
Join(ss, lo, hi) ==
    IF lo > hi THEN <<>>
    ELSE IF lo = hi THEN ss[lo]
    ELSE LET mid == (lo + hi) \div 2
         IN  Join(ss, lo, mid) \o Join(ss, mid + 1, hi)

\* one outcome for each answer of the list answers
Each(answers, F(_)) == [i \in 1..Len(answers) |-> F(answers[i])]

\* run F on every outcome of S that returned; an outcome that raised is passed on
Bind(S, F(_)) ==
    Join([i \in 1..Len(S) |-> IF Raised(S[i]) THEN <<S[i]>> ELSE F(S[i])], 1, Len(S))

---------------------------------------------------------------------------
(* class Teams *)

\* the discovery request of account_type and what it makes of the answer
account_type_request(c) ==
    Each(IdpResponses, LAMBDA r :
      LET c1 == Request(c, Http("GET idp", r))
          account == r.body.account
      IN  IF r.status = NoStatus THEN Throw(c1, "ConnectionError")
          ELSE IF ~ok(r) THEN Out(c1, IntFalse)
          ELSE IF ~r.body.valid THEN Throw(c1, "JSONDecodeError")
          ELSE IF r.body.empty THEN Out(c1, IntFalse)
          ELSE IF account = <<>> THEN Out(c1, IntFalse)
          ELSE IF account = MSAccount
               THEN Out([c1 EXCEPT !.account_type_cache = 1], 1)
          ELSE IF Contains(account, "OrgId")
               THEN Out([c1 EXCEPT !.account_type_cache = 2], 2)
          ELSE Out(c1, c1.account_type_cache))

\* account_type, were the cache looked at for the Personal kind only
account_type_asks_again(c) ==
    IF c.account_type_cache = 1
    THEN <<Out(c, c.account_type_cache)>>
    ELSE account_type_request(c)

\* property account_type: 1, 2, False (IntFalse) or None (IntNone)
account_type(c) ==
    IF c.account_type_cache \notin {IntNone, IntFalse}
    THEN <<Out(c, c.account_type_cache)>>
    ELSE account_type_request(c)

\* property tenant_id: the tenant id, or False
tenant_id(c) ==
    IF Len(c.email) > 1
    THEN Each(FederationResponses, LAMBDA r :
          LET c1 == Request(c, Http("GET federationprovider", r))
          IN  IF r.status = NoStatus THEN Throw(c1, "ConnectionError")
              ELSE IF ~ok(r) THEN Out(c1, PyFalse)
              ELSE IF ~r.body.valid THEN Throw(c1, "JSONDecodeError")
              ELSE Out(c1, GetOrFalse(r.body.tenantId)))
    ELSE <<Out(c, PyFalse)>>

\* the dict of authentication_metadata; empty: {}
NoMetadata == [empty |-> TRUE, scope |-> Absent, client_id |-> Absent, tenant |-> Absent]
PersonalMetadata ==
    [empty |-> FALSE,
     scope |-> "openid offline_access profile service::api.fl.spaces.skype.com::MBI_SSL",
     client_id |-> "8ec6bc83-69c8-4392-8f08-b3c986009232",
     tenant |-> "9188040d-6c67-4c5b-b112-36a304b66dad"]
OrganizationalMetadata(tenant) ==
    [empty |-> FALSE,
     scope |-> "https://api.spaces.skype.com/.default",
     client_id |-> "1fec8e78-bce4-4aaf-ab1b-5451cc387264",
     tenant |-> tenant]

\* property authentication_metadata
authentication_metadata(c) ==
    Bind(account_type(c), LAMBDA a :
        IF a.v = 1 THEN <<Out(a.c, PersonalMetadata)>>
        ELSE IF a.v = 2
             THEN Bind(tenant_id(a.c), LAMBDA t : <<Out(t.c, OrganizationalMetadata(t.v))>>)
        ELSE <<Out(a.c, NoMetadata)>>)

\* the value of self.client: the pair (metadata, client), or False (built = FALSE)
NoClient == [built |-> FALSE, metadata |-> NoMetadata]

\* what PublicClientApplication(...) does: it returns the client, or the
\* discovery of its authority fails and it raises
ClientBuilds == <<TRUE, FALSE>>

\* lines 110-118: the pair is built from the metadata m.v and cached, or
\* False is returned; the call is logged with the tenant of its authority
build_client(m) ==
    IF ~m.v.empty
    THEN Each(ClientBuilds, LAMBDA built :
           LET pair == [built |-> TRUE, metadata |-> m.v]
               c1 == Request(m.c, [Call("PublicClientApplication") EXCEPT
                                      !.host = m.v.tenant])
           IN  IF built
               THEN Out([c1 EXCEPT !.client_cache = pair], pair)
               ELSE Throw(c1, "ValueError"))
    ELSE <<Out(m.c, NoClient)>>

\* client, were the cache never looked at
client_built_anew(c) ==
    Bind(authentication_metadata(c), LAMBDA m : build_client(m))

\* property client
client(c) ==
    IF c.client_cache.built
    THEN <<Out(c, c.client_cache)>>
    ELSE Bind(authentication_metadata(c), LAMBDA m : build_client(m))

\* auth_metadata, client = self.client: unpacking False raises TypeError
unpack_client(c) ==
    Bind(client(c), LAMBDA p :
        IF p.v.built THEN <<p>> ELSE <<Throw(p.c, "TypeError")>>)

\* is_token_expired, were it to return what its docstring says
is_token_expired_as_documented(c) ==
    IF c.access_token_expiry = IntNone
    THEN <<Throw(c, "TypeError")>>
    ELSE <<Out(c, c.now >= c.access_token_expiry)>>

\* property is_token_expired
is_token_expired(c) ==
    IF c.access_token_expiry = IntNone
    THEN <<Throw(c, "TypeError")>>
    ELSE <<Out(c, c.now < c.access_token_expiry)>>

\* set_account_data, were it to leave need_login as it is
set_account_data_keeps_need_login(c, account) ==
    [c EXCEPT !.access_token = GetOrFalse(account.access_token),
              !.refresh_token = GetOrFalse(account.refresh_token),
              !.access_token_expiry =
                  c.now + (IF account.expires_in = IntNone THEN 0 ELSE account.expires_in),
              !.stored = account]

set_account_data(c, account) ==
    [c EXCEPT !.need_login = FALSE,
              !.access_token = GetOrFalse(account.access_token),
              !.refresh_token = GetOrFalse(account.refresh_token),
              !.access_token_expiry =
                  c.now + (IF account.expires_in = IntNone THEN 0 ELSE account.expires_in),
              !.stored = account]

\* one msal token call: it raises, or returns a dict or nothing
acquire_token(c, name, accounts) ==
    Each(accounts, LAMBDA account :
        LET c1 == Request(c, Msal(name, account))
        IN  IF account.raises THEN Throw(c1, "ConnectionError") ELSE Out(c1, account))

\* refresh_access_token, were the refresh token not tested at line 138
refresh_access_token_untested(c) ==
    Bind(unpack_client(c), LAMBDA p :
        Bind(acquire_token(p.c, "acquire_token_by_refresh_token", RefreshAccounts),
             LAMBDA account :
                 IF account.v.truthy
                 THEN <<Out(set_account_data(account.c, account.v), TRUE)>>
                 ELSE <<Out(account.c, FALSE)>>))

refresh_access_token(c) ==
    Bind(unpack_client(c), LAMBDA p :
        IF Truthy(p.c.refresh_token)
        THEN Bind(acquire_token(p.c, "acquire_token_by_refresh_token", RefreshAccounts),
                  LAMBDA account :
                      IF account.v.truthy
                      THEN <<Out(set_account_data(account.c, account.v), TRUE)>>
                      ELSE <<Out(account.c, FALSE)>>)
        ELSE <<Out(p.c, FALSE)>>)

\* logon_with_credentials, were the token asked for before the client is read
logon_with_credentials_before_client(c) ==
    Bind(acquire_token(c, "acquire_token_by_username_password", LoginAccounts),
         LAMBDA account :
             Bind(unpack_client(account.c), LAMBDA p :
                 IF account.v.truthy
                 THEN LET c1 == set_account_data(p.c, account.v)
                      IN  <<Out(c1, c1.access_token)>>
                 ELSE <<Out(p.c, PyFalse)>>))

logon_with_credentials(c) ==
    Bind(unpack_client(c), LAMBDA p :
        Bind(acquire_token(p.c, "acquire_token_by_username_password", LoginAccounts),
             LAMBDA account :
                 IF account.v.truthy
                 THEN LET c1 == set_account_data(account.c, account.v)
                      IN  <<Out(c1, c1.access_token)>>
                 ELSE <<Out(account.c, PyFalse)>>))

\* what initiate_device_flow returns: a flow, or nothing
DeviceFlows == <<TRUE, FALSE>>

logon_with_devicecode(c) ==
    Bind(unpack_client(c), LAMBDA p :
        Join(Each(DeviceFlows, LAMBDA flow :
               LET c1 == Request(p.c, Call("initiate_device_flow"))
               IN  IF flow
                   THEN Bind(acquire_token(c1, "acquire_token_by_device_flow", LoginAccounts),
                             LAMBDA account :
                                 IF account.v.truthy
                                 THEN LET c2 == set_account_data(account.c, account.v)
                                      IN  <<Out(c2, c2.access_token)>>
                                 ELSE <<Out(account.c, PyFalse)>>)
                   ELSE <<Out(c1, PyFalse)>>),
             1, Len(DeviceFlows)))

\* how many accounts client.get_accounts() finds in the client's token cache
EnrolledAccounts == <<0, 1>>
\* what acquire_token_silent returns: None, an error dict, a token, or it raises
SilentAccounts == <<NoAccount, ErrorAccount, RaisedAccount, [ErrorAccount EXCEPT !.access_token = "st1"]>>

\* property silent_token
silent_token(c) ==
    IF Truthy(c.silent_token_cache)
    THEN <<Out(c, c.silent_token_cache)>>
    ELSE Bind(unpack_client(c), LAMBDA p :
            Join(Each(EnrolledAccounts, LAMBDA accounts :
                   IF accounts = 0
                   THEN <<Throw(p.c, "IndexError")>>
                   ELSE Bind(acquire_token(p.c, "acquire_token_silent", SilentAccounts),
                             LAMBDA silent :
                                 IF ~silent.v.truthy
                                 THEN <<Throw(silent.c, "AttributeError")>>
                                 ELSE LET token == GetOrFalse(silent.v.access_token)
                                      IN  <<Out([silent.c EXCEPT !.silent_token_cache = token],
                                                token)>>)),
                 1, Len(EnrolledAccounts)))

\* property is_token_expired is read, and the refresh made, at lines 306-309
current_access_token(c) ==
    Bind(is_token_expired(c), LAMBDA expired :
        IF ~expired.v
        THEN Bind(refresh_access_token(expired.c), LAMBDA r : <<Out(r.c, r.c.access_token)>>)
        ELSE <<Out(expired.c, expired.c.access_token)>>)

get_access_token(c) ==
    LET login ==
            IF c.need_login
            THEN Bind(Bind(account_type(c), LAMBDA a :
                          IF a.v = 1
                          THEN Bind(logon_with_devicecode(a.c), LAMBDA l : <<Out(l.c, PyNone)>>)
                          ELSE <<Out(a.c, PyNone)>>),
                      LAMBDA d :
                          Bind(account_type(d.c), LAMBDA a :
                              IF a.v = 2
                              THEN Bind(logon_with_credentials(a.c),
                                        LAMBDA l : <<Out(l.c, PyNone)>>)
                              ELSE <<Out(a.c, PyNone)>>))
            ELSE <<Out(c, PyNone)>>
    IN  Bind(login, LAMBDA l : current_access_token(l.c))

\* what the broker answers to the authz POST
BrokerBody(a, b) == [OtherKeys EXCEPT !.skypetoken = a, !.tokens_skypeToken = b]
BrokerResponses ==
    <<NoResponse, Response(404, NoBody), Response(200, Malformed),
      Response(200, BrokerBody(Absent, Absent)),
      Response(200, BrokerBody("sk1", Absent)), Response(200, BrokerBody(Absent, "sk2")),
      Response(200, BrokerBody("sk1", "sk2"))>>

\* the extraction, were tokens.skypeToken looked for first
consumer_skypetoken_tokens_first(consumer) ==
    IF consumer.tokens_skypeToken # Absent THEN consumer.tokens_skypeToken
    ELSE IF consumer.skypetoken # Absent THEN consumer.skypetoken
    ELSE PyNone

\* the secondary token in the parsed body consumer, or None
consumer_skypetoken(consumer) ==
    IF consumer.skypetoken # Absent THEN consumer.skypetoken
    ELSE IF consumer.tokens_skypeToken # Absent THEN consumer.tokens_skypeToken
    ELSE PyNone

\* property x_skypetoken: the secondary token, or None
x_skypetoken(c) ==
    Bind(get_access_token(c), LAMBDA access :
    Bind(account_type(access.c), LAMBDA a :
    Bind(IF a.v = 1 THEN silent_token(a.c) ELSE <<Out(a.c, access.v)>>, LAMBDA token :
        LET api_url == IF a.v = 1 THEN "teams.live.com/api/auth/v1.0/authz/consumer"
                                  ELSE "authsvc.teams.microsoft.com/v1.0/authz"
        IN  IF Truthy(token.v)
            THEN Bind(unpack_client(token.c), LAMBDA p :
                 Bind(silent_token(p.c), LAMBDA silent :
                     Each(BrokerResponses, LAMBDA r :
                      LET headers == [NoHeaders EXCEPT
                                        !.authorization = Bearer(silent.v),
                                        !.tenantid = p.v.metadata.tenant]
                          c1 == Request(silent.c,
                                        [Http("POST authz", r) EXCEPT
                                            !.host = api_url, !.headers = headers])
                      IN  IF r.status = NoStatus THEN Throw(c1, "ConnectionError")
                          ELSE IF ~ok(r) THEN Out(c1, PyNone)
                          ELSE IF ~r.body.valid THEN Throw(c1, "JSONDecodeError")
                          ELSE Out(c1, consumer_skypetoken(r.body)))))
            ELSE <<Out(token.c, PyNone)>>)))

\* what the presence endpoint answers to the PUT
PresenceResponses ==
    <<NoResponse, Response(200, NoBody), Response(304, NoBody), Response(401, NoBody)>>

\* the headers of the PUT: first is the account type read at line 208, access
\* the token of line 205, skype the value of x_skypetoken where it was read
presence_headers(first, access, skype) ==
    IF first = 1
    THEN [NoHeaders EXCEPT !.authorization = Bearer(access),
                           !.consumer_type = "teams4life",
                           !.x_skypetoken = skype]
    ELSE [NoHeaders EXCEPT !.authorization = Bearer(access)]

\* presence_domaine, were the organizational host used for every account
presence_domaine_one_host(first, second) ==
    IF second = 2 \/ first = 1 THEN "presence.teams.microsoft.com" ELSE Absent

\* the local domaine: first and second are the account types read at lines 208
\* and 213; Absent: the name is not bound
presence_domaine(first, second) ==
    IF second = 2 THEN "presence.teams.microsoft.com"
    ELSE IF first = 1 THEN "presence.teams.live.com"
    ELSE Absent

set_activity(c) ==
    Bind(get_access_token(c), LAMBDA access :
    Bind(account_type(access.c), LAMBDA a1 :
    Bind(IF a1.v = 1 THEN x_skypetoken(a1.c) ELSE <<Out(a1.c, Absent)>>, LAMBDA x :
    Bind(account_type(x.c), LAMBDA a2 :
        LET headers == presence_headers(a1.v, access.v, x.v)
            domaine == presence_domaine(a1.v, a2.v)
        IN  IF domaine = Absent
            THEN <<Throw(a2.c, "UnboundLocalError")>>
            ELSE Each(PresenceResponses, LAMBDA r :
                  LET c1 == Request(a2.c,
                                    [Http("PUT forceavailability", r) EXCEPT
                                        !.host = domaine, !.headers = headers])
                  IN  IF r.status = NoStatus THEN Throw(c1, "ConnectionError")
                      ELSE Out(c1, ok(r)))))))

---------------------------------------------------------------------------
(* The session as a state machine *)

\* the addresses a session is built for: with and without a domain part
Emails == {<<"user", "contoso.com">>, <<"user">>}

\* the Teams object as the record the operators take; the log starts empty
Session ==
    [email |-> email, account_type_cache |-> account_type_cache,
     client_cache |-> client_cache, silent_token_cache |-> silent_token_cache,
     need_login |-> need_login, access_token |-> access_token,
     refresh_token |-> refresh_token, access_token_expiry |-> access_token_expiry,
     stored |-> stored, now |-> now, net |-> <<>>, exc |-> NoExc]

\* repr() of a returned bool or account type
ReprBool(b) == IF b THEN "True" ELSE "False"
ReprInt(i) == IF i = IntNone THEN PyNone ELSE IF i = IntFalse THEN PyFalse
              ELSE IF i = 1 THEN "1" ELSE "2"

\* the caller is between two calls
Idle == ""

\* the operation name has run with outcome o and returned value
Finish(name, o, value) ==
    /\ account_type_cache' = o.c.account_type_cache
    /\ client_cache' = o.c.client_cache
    /\ silent_token_cache' = o.c.silent_token_cache
    /\ need_login' = o.c.need_login
    /\ access_token' = o.c.access_token
    /\ refresh_token' = o.c.refresh_token
    /\ access_token_expiry' = o.c.access_token_expiry
    /\ stored' = o.c.stored
    /\ op' = name
    /\ net' = o.c.net
    /\ exc' = o.c.exc
    /\ ret' = value
    /\ UNCHANGED <<email, now>>

\* the caller calls the operation name, which ends with one of the outcomes
Run(name, outcomes, Repr(_)) ==
    /\ op = Idle
    /\ \E i \in 1..Len(outcomes) :
          Finish(name, outcomes[i], IF Raised(outcomes[i]) THEN "" ELSE Repr(outcomes[i].v))

\* Teams.__init__
Init ==
    /\ email \in Emails
    /\ account_type_cache = IntNone
    /\ client_cache = NoClient
    /\ silent_token_cache = PyNone
    /\ need_login = TRUE
    /\ access_token = PyNone
    /\ refresh_token = PyNone
    /\ access_token_expiry = IntNone
    /\ stored = NoAccount
    /\ now = 0
    /\ op = "__init__"
    /\ net = <<>>
    /\ exc = NoExc
    /\ ret = ""

SetActivity == Run("set_activity", set_activity(Session), LAMBDA v : ReprBool(v))

GetAccessToken == Run("get_access_token", get_access_token(Session), LAMBDA v : v)

RefreshAccessToken ==
    Run("refresh_access_token", refresh_access_token(Session), LAMBDA v : ReprBool(v))

ReadAccountType == Run("account_type", account_type(Session), LAMBDA v : ReprInt(v))

ReadClient == Run("client", client(Session), LAMBDA v : ReprBool(v.built))

ReadIsTokenExpired ==
    Run("is_token_expired", is_token_expired(Session), LAMBDA v : ReprBool(v))

ReadSilentToken == Run("silent_token", silent_token(Session), LAMBDA v : v)

ReadXSkypetoken == Run("x_skypetoken", x_skypetoken(Session), LAMBDA v : v)

\* the caller has looked at what the operation returned and goes on
Return ==
    /\ op # Idle
    /\ op' = Idle
    /\ net' = <<>>
    /\ exc' = NoExc
    /\ ret' = ""
    /\ UNCHANGED <<email, account_type_cache, client_cache, silent_token_cache,
                   need_login, access_token, refresh_token, access_token_expiry,
                   stored, now>>

\* a second passes between two calls
Tick ==
    /\ op = Idle
    /\ now < MaxTime
    /\ now' = now + 1
    /\ UNCHANGED <<email, account_type_cache, client_cache, silent_token_cache,
                   need_login, access_token, refresh_token, access_token_expiry,
                   stored, op, net, exc, ret>>

Next ==
    \/ SetActivity
    \/ GetAccessToken
    \/ RefreshAccessToken
    \/ ReadAccountType
    \/ ReadClient
    \/ ReadIsTokenExpired
    \/ ReadSilentToken
    \/ ReadXSkypetoken
    \/ Return
    \/ Tick

Spec == Init /\ [][Next]_vars

---------------------------------------------------------------------------
(* main.py: the scheduler and its job *)

\* schedule.every(90).seconds
Period == 90
\* the clock of main.py stops after MaxCycles periods
MaxCycles == 2

\* the object of the cycle before, were it kept for the next cycle
TeamsKept == Session

\* Teams(email=EMAIL, password=PASSWORD): a new object, as __init__ leaves it
Teams ==
    [Session EXCEPT !.account_type_cache = IntNone,
                    !.client_cache = NoClient,
                    !.silent_token_cache = PyNone,
                    !.need_login = TRUE,
                    !.access_token = PyNone,
                    !.refresh_token = PyNone,
                    !.access_token_expiry = IntNone,
                    !.stored = NoAccount]

\* main.py up to line 19: no cycle has run yet
InitMain ==
    /\ email \in Emails
    /\ account_type_cache = IntNone
    /\ client_cache = NoClient
    /\ silent_token_cache = PyNone
    /\ need_login = TRUE
    /\ access_token = PyNone
    /\ refresh_token = PyNone
    /\ access_token_expiry = IntNone
    /\ stored = NoAccount
    /\ now = 0
    /\ op = "main"
    /\ net = <<>>
    /\ exc = NoExc
    /\ ret = ""

\* the job is due: the call of line 21 at the start, and run_pending() once a
\* period has passed since the job last ran
JobIsDue == op = "main" \/ (op = "sleep" /\ now % Period = 0)

\* the job ends with one of the outcomes of its set_activity call: it returns
\* None, or the exception, which nothing catches, ends the program
set_teams_activity(outcomes) ==
    \E i \in 1..Len(outcomes) :
        Finish("set_teams_activity", outcomes[i],
               IF Raised(outcomes[i]) THEN "" ELSE PyNone)

\* the job runs; the fields are from then on those of the object of this cycle
SetTeamsActivity ==
    /\ JobIsDue
    /\ set_teams_activity(set_activity(Teams))

\* time.sleep(1) of the loop, run_pending() having found nothing due
Sleep ==
    /\ op \in {"set_teams_activity", "sleep"}
    /\ exc = NoExc
    /\ ~JobIsDue
    /\ now < Period * MaxCycles
    /\ now' = now + 1
    /\ op' = "sleep"
    /\ net' = <<>>
    /\ ret' = ""
    /\ UNCHANGED <<email, account_type_cache, client_cache, silent_token_cache,
                   need_login, access_token, refresh_token, access_token_expiry,
                   stored, exc>>

NextMain ==
    \/ SetTeamsActivity
    \/ Sleep

SpecMain == InitMain /\ [][NextMain]_vars

---------------------------------------------------------------------------
(* What the claims speak of *)

PUT == "PUT forceavailability"
POST == "POST authz"
REFRESH == "acquire_token_by_refresh_token"
TokenLogins == {"acquire_token_by_username_password", "acquire_token_by_device_flow"}
Logins == TokenLogins \cup {"initiate_device_flow"}

\* where in the log the calls named in names are
Calls(log, names) == {i \in 1..Len(log) : log[i].call \in names}

\* the last call of the log
Last == net[Len(net)]

\* set_activity has sent the PUT with a usable token and got an answer
PutAnswered ==
    /\ op = "set_activity"
    /\ Len(net) > 0
    /\ Last.call = PUT
    /\ Last.response.status # NoStatus
    /\ Truthy(Last.headers.authorization.token)

C2_NeverRaises ==
    op = "set_activity" => exc = NoExc /\ ret \in {"True", "False"}

\* C3: when the first classification request of a set_activity call fails, the
\* call returns False and makes no other remote call.
C3_UnknownEndsTheCall ==
    (/\ op = "set_activity"
     /\ Len(net) > 0
     /\ net[1].call = "GET idp"
     /\ (net[1].response.status = NoStatus \/ ~ok(net[1].response)))
    => (exc = NoExc /\ ret = "False" /\ Len(net) = 1)

\* C4: every PUT carries a token that is neither None nor False.
C4_NoPutWithEmptyToken ==
    \A i \in Calls(net, {PUT}) : Truthy(net[i].headers.authorization.token)

\* C5: after a login that stored a lifetime above 0, is_token_expired is False
\* before the expiry and True from the expiry on.
C5_ExpiredIffElapsed ==
    (op = "is_token_expired" /\ stored.access_token = "at1" /\ stored.expires_in > 0)
    => (exc = NoExc /\ (ret = "True" <=> now >= access_token_expiry))

\* the account kind C6 gives for an answer of the discovery endpoint
ClaimedKind(r) ==
    IF r.status \in 200..299 /\ r.body.valid /\ r.body.account = MSAccount THEN "1"
    ELSE IF r.status \in 200..299 /\ r.body.valid /\ Contains(r.body.account, "OrgId") THEN "2"
    ELSE "Unknown"

\* C6: for every answer of the discovery endpoint, account_type returns 1 for
\* "MSAccount", 2 for an account field that contains "OrgId", and otherwise
\* (no account field, another value, a non-2xx status, a malformed body)
\* Unknown (False or None) as a value: it does not raise.
C6_Classification ==
    (op = "account_type" /\ Len(net) = 1 /\ net[1].response.status # NoStatus)
    => /\ exc = NoExc
       /\ ClaimedKind(net[1].response) # "Unknown" => ret = ClaimedKind(net[1].response)
       /\ ClaimedKind(net[1].response) = "Unknown" => ret \in {PyFalse, PyNone}

\* the secondary token in a broker answer: the first of the two paths found
BrokerToken(r) ==
    IF ~ok(r) \/ r.status = NoStatus \/ ~r.body.valid THEN PyNone
    ELSE IF r.body.skypetoken # Absent THEN r.body.skypetoken
    ELSE IF r.body.tokens_skypeToken # Absent THEN r.body.tokens_skypeToken
    ELSE PyNone

\* C7: the PUT of set_activity goes, for a Personal account, to
\* presence.teams.live.com with the consumer-type marker and with the secondary
\* token of the broker as x-skypetoken (None when the broker gave none); for an
\* Organizational account it goes to presence.teams.microsoft.com with the
\* authorization header alone, and no broker request is made.
C7_HostAndHeadersByKind ==
    (op = "set_activity" /\ Calls(net, {PUT}) # {})
    => /\ Calls(net, {PUT}) = {Len(net)}
       /\ account_type_cache \in {1, 2}
       /\ account_type_cache = 1 =>
            /\ Last.host = "presence.teams.live.com"
            /\ Last.headers.consumer_type = "teams4life"
            /\ Last.headers.x_skypetoken # Absent
            /\ \A i \in Calls(net, {POST}) :
                  Last.headers.x_skypetoken = BrokerToken(net[i].response)
            /\ Calls(net, {POST}) = {} => Last.headers.x_skypetoken = PyNone
       /\ account_type_cache = 2 =>
            /\ Last.host = "presence.teams.microsoft.com"
            /\ Last.headers = [NoHeaders EXCEPT
                                 !.authorization = Last.headers.authorization]
            /\ Calls(net, {POST}) = {}

C7_Witness ==
    /\ op = "set_activity"
    /\ Calls(net, {PUT}) # {}
    /\ Calls(net, {POST}) # {}
    /\ Last.host = "presence.teams.live.com"
    /\ Last.headers.x_skypetoken = "sk2"

\* C8: a call makes a login attempt only from a session whose need_login is
\* True and in which no login or refresh has succeeded yet.
C8_NoLoginAfterSuccess ==
    [][(~need_login \/ stored.truthy) => Calls(net', Logins) = {}]_vars

\* a later call in which the refresh failed and no login was tried
C8_Witness ==
    /\ op \in {"set_activity", "get_access_token"}
    /\ \E i \in Calls(net, {REFRESH}) : ~net[i].account.truthy
    /\ Calls(net, Logins) = {}
    /\ stored.truthy

C10_FailedLoginLeavesNothing ==
    \A i \in Calls(net, TokenLogins) :
        (~net[i].account.raises /\ net[i].account.access_token = Absent)
        => /\ access_token = PyNone
           /\ refresh_token = PyNone
           /\ access_token_expiry = IntNone
           /\ need_login
           /\ Calls(net, {PUT}) = {}

\* the exceptions of a remote call that failed: no answer, a body that does
\* not parse, an authority that is not found
RemoteFailures == {"ConnectionError", "JSONDecodeError", "ValueError"}

\* C11: refresh_access_token called while no refresh token is held returns
\* False and leaves access_token, refresh_token, access_token_expiry and
\* need_login as they were, in every session, one of Unknown kind included
\* (no remote call on the way failing).
C11_RefreshWithoutTokenFails ==
    [][(op' = "refresh_access_token" /\ ~Truthy(refresh_token) /\ exc' \notin RemoteFailures)
         => /\ exc' = NoExc
            /\ ret' = "False"
            /\ UNCHANGED <<access_token, refresh_token, access_token_expiry, need_login>>]_vars

\* C12: once account_type has returned 1 or 2 (the cache then holds it), no
\* later operation of the session changes the kind or sends a discovery
\* request, and every later read of account_type returns that same value.
C12_KindIsCached ==
    [][(account_type_cache \in {1, 2})
         => (/\ account_type_cache' = account_type_cache
             /\ Calls(net', {"GET idp"}) = {}
             /\ (op' = "account_type"
                   => (exc' = NoExc /\ ret' = ReprInt(account_type_cache))))]_vars

\* a read of account_type answered from the cache
C12_Witness ==
    /\ op = "account_type"
    /\ account_type_cache = 2
    /\ ret = "2"
    /\ net = <<>>

SILENT == "acquire_token_silent"

\* C13: a read of silent_token that finds the client without an enrolled
\* account (no silent request is made), or whose silent request brings no
\* token, returns False, raises nothing and leaves silent_token_cache empty.
C13_SilentTokenFailsCleanly ==
    (/\ op = "silent_token"
     /\ client_cache.built
     /\ ~Truthy(silent_token_cache)
     /\ \A i \in Calls(net, {SILENT}) :
           ~net[i].account.raises /\ net[i].account.access_token = Absent)
    => (exc = NoExc /\ ret = PyFalse)

\* the broker request of an x_skypetoken read was answered 2xx with a body
\* that parses
BrokerAnswered ==
    /\ op = "x_skypetoken"
    /\ Len(net) > 0
    /\ Last.call = POST
    /\ Last.response.status \in 200..299
    /\ Last.response.body.valid

NoneRequired(o) == ~Raised(o) /\ o.c.account_type_cache = 2

\* an outcome of x_skypetoken for a Personal account whose broker request was
\* answered with a failure status
NoneObtained(o) ==
    /\ ~Raised(o)
    /\ o.c.account_type_cache = 1
    /\ Len(o.c.net) > 0
    /\ o.c.net[Len(o.c.net)].call = POST
    /\ ~ok(o.c.net[Len(o.c.net)].response)

\* C15: of the values a read of x_skypetoken can return, the one returned for
\* an Organizational account (none required) is never the one returned for a
\* Personal account whose broker request failed (none obtained): the caller
\* can tell the two apart.
C15_NoTokenResultsDiffer ==
    op = Idle =>
        LET outcomes == x_skypetoken(Session)
            required == {i \in 1..Len(outcomes) : NoneRequired(outcomes[i])}
            obtained == {i \in 1..Len(outcomes) : NoneObtained(outcomes[i])}
        IN  \A i \in required : \A j \in obtained : outcomes[i].v # outcomes[j].v

BUILD == "PublicClientApplication"

\* C16: a read of client in a session whose kind is Unknown returns False and
\* builds nothing; once a client is built, the cached pair never changes, and
\* every later read of client returns it without any request.
C16_ClientSentinelAndCache ==
    [][/\ client_cache.built => client_cache' = client_cache
       /\ (op' = "client" /\ client_cache.built)
          => (net' = <<>> /\ exc' = NoExc /\ ret' = "True")
       /\ (op' = "client" /\ exc' \notin RemoteFailures /\ account_type_cache' \notin {1, 2})
          => /\ exc' = NoExc
             /\ ret' = "False"
             /\ ~client_cache'.built
             /\ Calls(net', {BUILD}) = {}]_vars

\* a read of client answered from the cache of an Organizational session
C16_Witness ==
    /\ op = "client"
    /\ client_cache.built
    /\ client_cache.metadata.client_id = "1fec8e78-bce4-4aaf-ab1b-5451cc387264"
    /\ net = <<>>
    /\ ret = "True"

\* a read of client in a session of Unknown kind
C16_WitnessUnknown ==
    /\ op = "client"
    /\ account_type_cache \notin {1, 2}
    /\ Len(net) = 1
    /\ ret = "False"

\* C17: no client is built, and none is cached, with False as the tenant of
\* its authority: the metadata of an Organizational client carries the tenant
\* id that the tenant lookup returned.
C17_TenantIsResolved ==
    /\ \A i \in Calls(net, {BUILD}) : net[i].host # PyFalse
    /\ client_cache.built => client_cache.metadata.tenant # PyFalse

\* the place of a remote call in the dependency order: classification, tenant
\* lookup, client construction, login or refresh, silent token, broker, PUT
Rank(name) ==
    CASE name = "GET idp" -> 1
      [] name = "GET federationprovider" -> 2
      [] name = BUILD -> 3
      [] name \in Logins \cup {REFRESH} -> 4
      [] name = SILENT -> 5
      [] name = POST -> 6
      [] name = PUT -> 7

\* C18: the remote calls of a set_activity call are made in dependency order:
\* no classification request after the client is built, no construction after
\* a login or refresh, no login or refresh after a silent-token or broker
\* request, and the PUT last of all; a call that finds the session without a
\* kind and builds a client has classified first, and one that finds it
\* without a client and logs in or refreshes has built the client first.
C18_DependencyOrder ==
    [][op' = "set_activity"
         => /\ \A i, j \in 1..Len(net') :
                  i < j => Rank(net'[i].call) <= Rank(net'[j].call)
            /\ Calls(net', {PUT}) \subseteq {Len(net')}
            /\ (account_type_cache \notin {1, 2} /\ Calls(net', {BUILD}) # {})
               => Calls(net', {"GET idp"}) # {}
            /\ (~client_cache.built /\ Calls(net', Logins \cup {REFRESH}) # {})
               => Calls(net', {BUILD}) # {}]_vars

\* a set_activity call that makes every kind of remote call
C18_Witness ==
    /\ op = "set_activity"
    /\ Last.call = PUT
    /\ \A name \in {"GET idp", BUILD, "acquire_token_by_device_flow", REFRESH, SILENT, POST} :
          Calls(net, {name}) # {}

\* C19: once set_account_data has stored an answer without a refresh_token
\* (refresh_token is False and need_login is False), no later step of the
\* session changes access_token, refresh_token or access_token_expiry.
C19_StuckWithoutRefreshToken ==
    [][(refresh_token = PyFalse /\ ~need_login)
         => UNCHANGED <<access_token, refresh_token, access_token_expiry>>]_vars

\* a later get_access_token call on the stuck session, past the expiry: it
\* neither logs in nor refreshes and returns the old access token
C19_Witness ==
    /\ op = "get_access_token"
    /\ refresh_token = PyFalse
    /\ ~need_login
    /\ access_token = "at1"
    /\ now > access_token_expiry
    /\ Calls(net, Logins \cup {REFRESH}) = {}
    /\ ret = "at1"

\* C20: every cycle of main.py runs set_activity on a new session, whatever
\* the cycle before has left: it classifies anew (its first remote call is the
\* discovery request), it attempts a login before any refresh, silent-token,
\* broker or presence request and whenever it has built its client, and every
\* refresh it attempts uses a refresh token granted by a login of this cycle.
C20_EveryCycleStartsAnew ==
    [][op' = "set_teams_activity"
         => /\ Len(net') > 0
            /\ net'[1].call = "GET idp"
            /\ \A i \in Calls(net', {REFRESH, SILENT, POST, PUT}) :
                  \E j \in Calls(net', Logins) : j < i
            /\ client_cache'.built => Calls(net', {BUILD} \cup Logins) # {BUILD}
            /\ \A i \in Calls(net', {REFRESH}) :
                  \E j \in Calls(net', TokenLogins) :
                      j < i /\ Truthy(GetOrFalse(net'[j].account.refresh_token))]_vars

\* a scheduled cycle, following one that logged in and sent its PUT, that
\* classifies, logs in, refreshes and sends its PUT again
C20_Witness ==
    /\ op = "set_teams_activity"
    /\ now >= Period
    /\ net[1].call = "GET idp"
    /\ Calls(net, TokenLogins) # {}
    /\ Calls(net, {REFRESH}) # {}
    /\ Last.call = PUT

====
